---- MODULE Spec2Model ----
(***************************************************************************)
(* A model of the movie plugin of src/main.ts: the query builder (getUrl), *)
(* the template formatter (formatter), the crawl-and-add pipeline          *)
(* (crawlAndAdd with crawlMovie, addImageToAssets, getTrailerOnYoutube,    *)
(* formatMovie, addContentToFile) and the settings tab's key edits.        *)
(*                                                                         *)
(* A JavaScript string is a sequence of one-character strings, so that     *)
(* String.prototype.replace, the regular expressions and the template      *)
(* literals are computed character by character.                           *)
(***************************************************************************)
EXTENDS Integers, Sequences, FiniteSets, TLC

VARIABLES
    settings,       \* MoviePlugin.settings
    omdbApiUrl,     \* MoviePlugin.omdbApiUrl
    youtubeApiUrl,  \* MoviePlugin.youtubeApiUrl
    uPc,            \* getUrl under test: "call" before, "done" after
    uText,          \* getUrl's argument
    uUrl,           \* getUrl's return value
    fPc,            \* formatter under test: its position
    fData,          \* formatter's argument data
    fTemplate,      \* formatter's argument template
    fWork,          \* formatter's local template as rewritten so far
    fTrailer,       \* formatter's local trailer
    run,            \* the invocation of crawlAndAdd: its locals and its effects
    vault,          \* the paths of the files of the vault
    pendingSave     \* the number of key edits suspended at await saveSettings()

runVars == <<run, vault>>

editVars == <<pendingSave>>

urlVars == <<uPc, uText, uUrl>>

fmtVars == <<fPc, fData, fTemplate, fWork, fTrailer>>

keyVars == <<settings, omdbApiUrl, youtubeApiUrl>>

vars == <<keyVars, urlVars, fmtVars, runVars, editVars>>

(***************************************************************************)
(* Bounds of the model.                                                    *)
(***************************************************************************)
\* the number of pieces an input text of getUrl is made of
MaxTextParts == 4

\* the number of pieces a template given to formatter is made of
MaxTemplateParts == 3

\* the number of key edits suspended at await saveSettings() at a time
MaxPending == 1

(***************************************************************************)
(* Strings.                                                                *)
(***************************************************************************)
Digits == {"0", "1", "2", "3", "4", "5", "6", "7", "8", "9"}

\* \d of a regular expression
IsDigit(c) == c \in Digits

\* \s of a regular expression
IsSpace(c) == c \in {" ", "\t", "\n"}

\* all the concatenations of at most n members of pieces
RECURSIVE Concats(_, _)
Concats(pieces, n) ==
    IF n = 0 THEN {<<>>}
    ELSE LET shorter == Concats(pieces, n - 1)
         IN  shorter \cup {p \o t : p \in pieces, t \in shorter}

\* String.prototype.indexOf, counted from 1; 0 when pat does not occur
IndexOf(s, pat) ==
    LET at == {i \in 1..(Len(s) - Len(pat) + 1) : SubSeq(s, i, i + Len(pat) - 1) = pat}
    IN  IF at = {} THEN 0 ELSE CHOOSE i \in at : \A j \in at : i <= j

\* String.prototype.includes
Contains(s, pat) == IndexOf(s, pat) # 0

\* the replacement text of String.prototype.replace(string, string): $$ is a
\* dollar, $& the match, $' the text after it; a string pattern has no groups,
\* so that every other $ stands for itself (the fourth pattern, a dollar and a
\* grave accent for the text before the match, needs a character no text of
\* the model holds)
RECURSIVE GetSubstitution(_, _, _)
GetSubstitution(rep, matched, after) ==
    LET i == IndexOf(rep, <<"$">>)
        rest(k) == GetSubstitution(SubSeq(rep, k, Len(rep)), matched, after)
    IN  IF i = 0 THEN rep
        ELSE SubSeq(rep, 1, i - 1) \o
             (IF i < Len(rep) /\ rep[i + 1] \in {"$", "&", "'"}
              THEN (CASE rep[i + 1] = "$" -> <<"$">>
                      [] rep[i + 1] = "&" -> matched
                      [] rep[i + 1] = "'" -> after) \o rest(i + 2)
              ELSE <<"$">> \o rest(i + 1))

\* String.prototype.replace(pat, rep) with a string pattern: the first
\* occurrence only
Replace(s, pat, rep) ==
    LET i == IndexOf(s, pat)
    IN  IF i = 0 THEN s
        ELSE LET before == SubSeq(s, 1, i - 1)
                 after == SubSeq(s, i + Len(pat), Len(s))
             IN  before \o GetSubstitution(rep, pat, after) \o after

(***************************************************************************)
(* Numbers: a JavaScript number is NaN or an integer.                      *)
(***************************************************************************)
NaN == [nan |-> TRUE, n |-> 0]

Num(k) == [nan |-> FALSE, n |-> k]

DigitChars == <<"0", "1", "2", "3", "4", "5", "6", "7", "8", "9">>

DigitValue(c) == (CHOOSE d \in 1..10 : DigitChars[d] = c) - 1

RECURSIVE NatToString(_)
NatToString(k) ==
    IF k < 10 THEN <<DigitChars[k + 1]>>
    ELSE NatToString(k \div 10) \o <<DigitChars[(k % 10) + 1]>>

\* the number x inside a template literal
NumberToString(x) ==
    IF x.nan THEN <<"N","a","N">>
    ELSE IF x.n < 0 THEN <<"-">> \o NatToString(-x.n)
    ELSE NatToString(x.n)

\* the value of a string of decimal digits
RECURSIVE DigitsValue(_)
DigitsValue(ds) ==
    IF ds = <<>> THEN 0
    ELSE 10 * DigitsValue(SubSeq(ds, 1, Len(ds) - 1)) + DigitValue(ds[Len(ds)])

\* the length of the white space s begins with
LeadingSpaces(s) ==
    CHOOSE k \in 0..Len(s) :
        /\ \A j \in 1..k : IsSpace(s[j])
        /\ k < Len(s) => ~IsSpace(s[k + 1])

\* the length of the decimal digits s begins with
LeadingDigits(s) ==
    CHOOSE k \in 0..Len(s) :
        /\ \A j \in 1..k : IsDigit(s[j])
        /\ k < Len(s) => ~IsDigit(s[k + 1])

\* parseInt(s) with the radix left out: white space, a sign, decimal digits;
\* NaN when no digit follows (no text of the model starts with 0x)
parseInt(s) ==
    LET t == SubSeq(s, LeadingSpaces(s) + 1, Len(s))
        signed == t # <<>> /\ t[1] \in {"+", "-"}
        u == IF signed THEN Tail(t) ELSE t
        k == LeadingDigits(u)
        v == DigitsValue(SubSeq(u, 1, k))
    IN  IF k = 0 THEN NaN
        ELSE IF signed /\ t[1] = "-" THEN Num(-v) ELSE Num(v)

\* Math.floor(x / d) for a positive integer d
FloorDiv(x, d) == IF x.nan THEN NaN ELSE Num(x.n \div d)

\* x % d for a positive integer d: the sign is the dividend's
Remainder(x, d) ==
    IF x.nan THEN NaN
    ELSE IF x.n >= 0 THEN Num(x.n % d) ELSE Num(-((-x.n) % d))

\* x || d of a number x
OrDefault(x, d) == IF x.nan \/ x.n = 0 THEN Num(d) ELSE x

(***************************************************************************)
(* Constants of the program.                                               *)
(***************************************************************************)
extractMovieUrl == <<"h","t","t","p","s",":","/","/","w","w","w",".","o","m","d","b","a","p","i",".","c","o","m","/","?","a","p","i","k","e","y","=","{","k","e","y","}","&">>

youtubeApiUrlTemplate == <<"h","t","t","p","s",":","/","/","w","w","w",".","g","o","o","g","l","e","a","p","i","s",".","c","o","m","/","y","o","u","t","u","b","e","/","v","3","/","s","e","a","r","c","h","?","k","e","y","=","{","k","e","y","}","&","t","y","p","e","=","v","i","d","e","o","&","m","a","x","R","e","s","u","l","t","s","=","1","&","v","i","d","e","o","E","m","b","e","d","d","a","b","l","e","=","t","r","u","e","&","q","=">>

DEFAULT_SETTINGS ==
    [omdbapikey |-> <<>>,
     youtubeapikey |-> <<>>,
     template |-> <<"{","{","P","o","s","t","e","r","}","}","\n","*","*","L","e","n","g","t","h",":","*","*"," ","{","{","R","u","n","t","i","m","e","}","}","\n","*","*","G","e","n","r","e",":","*","*"," ","{","{","G","e","n","r","e","}","}","\n","*","*","A","c","t","o","r","s",":","*","*"," ","{","{","A","c","t","o","r","s","}","}","\n","*","*","Y","e","a","r",":","*","*"," ","{","{","Y","e","a","r","}","}","\n","*","*","I","M","D","B"," ","S","c","o","r","e",":","*","*"," ","{","{","i","m","d","b","R","a","t","i","n","g","}","}"," ","(","{","{","i","m","d","b","V","o","t","e","s","}","}",")","\n","\n","{","{","P","l","o","t","}","}","\n","\n","{","{","T","r","a","i","l","e","r","}","}">>,
     mainPath |-> <<"m","o","v","i","e","s">>,
     assetPath |-> <<"a","s","s","e","t","s">>,
     fileName |-> <<"{","{","T","i","t","l","e","}","}">>,
     imageSize |-> Num(200)]

\* the API keys the settings hold in the model; the empty one is DEFAULT_SETTINGS'
Keys == {<<>>, <<"k","1">>}

\* the identifiers the video search answers with
VideoIds == {<<"d","Q","w","4","w","9","W","g","X","c","Q">>, <<"{","{","T","i","t","l","e","}","}">>}

(***************************************************************************)
(* updateKeys                                                              *)
(***************************************************************************)
updateKeysOmdb(s) == Replace(extractMovieUrl, <<"{","k","e","y","}">>, s.omdbapikey)

updateKeysYoutube(s) == Replace(youtubeApiUrlTemplate, <<"{","k","e","y","}">>, s.youtubeapikey)

(***************************************************************************)
(* getUrl                                                                  *)
(***************************************************************************)
\* /tt\d+$/.test(text)
IsImdbId(text) ==
    \E i \in 1..(Len(text) - 2) :
        /\ text[i] = "t"
        /\ text[i + 1] = "t"
        /\ \A j \in (i + 2)..Len(text) : IsDigit(text[j])

\* /\s\([\d]{4}\)/ matches text at i
SpaceYearAt(text, i) ==
    /\ i >= 1
    /\ i + 6 <= Len(text)
    /\ IsSpace(text[i])
    /\ text[i + 1] = "("
    /\ \A j \in (i + 2)..(i + 5) : IsDigit(text[j])
    /\ text[i + 6] = ")"

\* /\(([\d]{4})\)/ matches text at i
YearAt(text, i) ==
    /\ i >= 1
    /\ i + 5 <= Len(text)
    /\ text[i] = "("
    /\ \A j \in (i + 1)..(i + 4) : IsDigit(text[j])
    /\ text[i + 5] = ")"

\* /\s\([\d]{4}\)/.test(text)
HasSpaceYear(text) == \E i \in 1..Len(text) : SpaceYearAt(text, i)

\* text.replace(/\s\([\d]{4}\)/, ""): the leftmost match is removed
StripSpaceYear(text) ==
    LET i == CHOOSE k \in 1..Len(text) :
                 SpaceYearAt(text, k) /\ \A j \in 1..(k - 1) : ~SpaceYearAt(text, j)
    IN  SubSeq(text, 1, i - 1) \o SubSeq(text, i + 7, Len(text))

\* text.match(/\(([\d]{4})\)/)?.[1]: the group of the leftmost match
MatchYear(text) ==
    LET i == CHOOSE k \in 1..Len(text) :
                 YearAt(text, k) /\ \A j \in 1..(k - 1) : ~YearAt(text, j)
    IN  SubSeq(text, i + 1, i + 4)

getUrl(text) ==
    IF IsImdbId(text) THEN omdbApiUrl \o <<"i","=">> \o text
    ELSE IF HasSpaceYear(text)
    THEN omdbApiUrl \o <<"t","=">> \o StripSpaceYear(text) \o <<"&","y","=">> \o MatchYear(text)
    ELSE omdbApiUrl \o <<"t","=">> \o text

(***************************************************************************)
(* Records: the JSON object of a response is the sequence of its           *)
(* <<key, value>> pairs in the order for-in enumerates them, with string   *)
(* values and no key twice.                                                *)
(***************************************************************************)
Has(data, key) == \E i \in 1..Len(data) : data[i][1] = key

Get(data, key) == data[CHOOSE i \in 1..Len(data) : data[i][1] = key][2]

\* data[key] && data[key] !== "N/A"
Present(data, key) == Has(data, key) /\ Get(data, key) # <<>> /\ Get(data, key) # <<"N","/","A">>

\* data[key] where a string is built from it: undefined reads "undefined"
GetString(data, key) == IF Has(data, key) THEN Get(data, key) ELSE <<"u","n","d","e","f","i","n","e","d">>

\* data with the value of key replaced
Put(data, key, value) ==
    [i \in 1..Len(data) |-> IF data[i][1] = key THEN <<key, value>> ELSE data[i]]

(***************************************************************************)
(* formatter                                                               *)
(***************************************************************************)
\* the token of a key: two braces, the key, two braces
Token(key) == <<"{","{">> \o key \o <<"}","}">>

\* the keys the generic pass leaves out
SpecialKeys == {<<"P","o","s","t","e","r">>, <<"T","r","a","i","l","e","r">>, <<"R","u","n","t","i","m","e">>}

\* a faulty for-in loop: the result of template.replace is dropped, so that
\* the template is returned as it came
GenericPassDiscarded(data, template) == template

\* a faulty for-in loop: it returns from inside the loop, after the first
\* generic field
RECURSIVE GenericPassReturnsEarly(_, _)
GenericPassReturnsEarly(data, template) ==
    IF data = <<>> THEN template
    ELSE IF Head(data)[1] \notin SpecialKeys
    THEN Replace(template, Token(Head(data)[1]), Head(data)[2])
    ELSE GenericPassReturnsEarly(Tail(data), template)

\* the for-in loop of formatter
RECURSIVE GenericPass(_, _)
GenericPass(data, template) ==
    IF data = <<>> THEN template
    ELSE LET key == Head(data)[1]
             value == Head(data)[2]
         IN  GenericPass(Tail(data),
                 IF key \notin SpecialKeys
                 THEN Replace(template, Token(key), value)
                 ELSE template)

\* data.Runtime.split(" ")[0]
FirstWord(s) ==
    LET i == IndexOf(s, <<" ">>) IN IF i = 0 THEN s ELSE SubSeq(s, 1, i - 1)

\* format runtime
FormatRuntime(data, template) ==
    IF Present(data, <<"R","u","n","t","i","m","e">>)
    THEN LET minute == parseInt(FirstWord(Get(data, <<"R","u","n","t","i","m","e">>)))
             hour == FloorDiv(minute, 60)
             minuteLeft == Remainder(minute, 60)
         IN  Replace(template, <<"{","{","R","u","n","t","i","m","e","}","}">>,
                 NumberToString(hour) \o <<"h"," ">> \o NumberToString(minuteLeft) \o <<"m">>)
    ELSE Replace(template, <<"{","{","R","u","n","t","i","m","e","}","}">>, <<"-">>)

\* the embedded-image reference of format poster
PosterReference(data) ==
    LET fileName == Replace(settings.fileName, <<"{","{","T","i","t","l","e","}","}">>, GetString(data, <<"T","i","t","l","e">>))
        imageSize == OrDefault(settings.imageSize, 200)
    IN  <<"!","[","[">> \o settings.assetPath \o <<"/">> \o fileName \o <<".","j","p","g","|","m","o","v","i","e","|">>
            \o NumberToString(imageSize) \o <<"]","]">>

\* format poster
FormatPoster(data, template) ==
    IF Present(data, <<"P","o","s","t","e","r">>)
    THEN Replace(template, <<"{","{","P","o","s","t","e","r","}","}">>, PosterReference(data))
    ELSE Replace(template, <<"{","{","P","o","s","t","e","r","}","}">>, <<"-">>)

\* formatter up to the test of settings.youtubeapikey
FormatterSync(data, template) ==
    FormatPoster(data, FormatRuntime(data, GenericPass(data, template)))

\* format trailer, with the identifier getTrailerOnYoutube returned
FormatTrailer(template, trailer) ==
    Replace(template, <<"{","{","T","r","a","i","l","e","r","}","}">>,
        <<"<","i","f","r","a","m","e"," ","c","l","a","s","s","=","\"","m","o","v","i","e","\""," ","w","i","d","t","h","=","\"","5","6","0","\""," ","h","e","i","g","h","t","=","\"","3","1","5","\""," ","s","r","c","=","\"","h","t","t","p","s",":","/","/","w","w","w",".","y","o","u","t","u","b","e",".","c","o","m","/","e","m","b","e","d","/">>
        \o trailer
        \o <<"\""," ","t","i","t","l","e","=","\"","Y","o","u","T","u","b","e"," ","v","i","d","e","o"," ","p","l","a","y","e","r","\""," ","f","r","a","m","e","b","o","r","d","e","r","=","\"","0","\""," ","a","l","l","o","w","=","\"","a","c","c","e","l","e","r","o","m","e","t","e","r",";"," ","a","u","t","o","p","l","a","y",";"," ","c","l","i","p","b","o","a","r","d","-","w","r","i","t","e",";"," ","e","n","c","r","y","p","t","e","d","-","m","e","d","i","a",";"," ","g","y","r","o","s","c","o","p","e",";"," ","p","i","c","t","u","r","e","-","i","n","-","p","i","c","t","u","r","e",";"," ","w","e","b","-","s","h","a","r","e","\""," ","a","l","l","o","w","f","u","l","l","s","c","r","e","e","n",">","<","/","i","f","r","a","m","e",">">>)

\* formatter without a trailer key
FormatNoTrailer(template) == Replace(template, <<"{","{","T","r","a","i","l","e","r","}","}">>, <<>>)

\* the request URL of getTrailerOnYoutube
TrailerUrl(title) == youtubeApiUrl \o title \o <<" ","t","r","a","i","l","e","r">>

(***************************************************************************)
(* The query builder on its own: getUrl applied to every text made of at   *)
(* most MaxTextParts pieces.                                               *)
(***************************************************************************)
TextPieces == {<<"a">>, <<" ">>, <<"t","t">>, <<"1">>, <<"(","1","9","9","9",")">>, <<"(","2","0","0","0",")">>, <<"(","1","9",")">>}

UrlTexts == Concats(TextPieces, MaxTextParts)

\* the formatter at rest
FmtIdle ==
    /\ fPc = "idle"
    /\ fData = <<>>
    /\ fTemplate = <<>>
    /\ fWork = <<>>
    /\ fTrailer = <<>>

\* no invocation of crawlAndAdd and no edit
PipelineIdle ==
    /\ run = <<>>
    /\ vault = {}
    /\ pendingSave = 0

\* getUrl at rest
UrlIdle ==
    /\ uPc = "idle"
    /\ uText = <<>>
    /\ uUrl = <<>>

\* loadSettings and updateKeys of onload, with the keys loadData returned
InitKeys(loaded) ==
    /\ settings \in loaded
    /\ omdbApiUrl = updateKeysOmdb(settings)
    /\ youtubeApiUrl = updateKeysYoutube(settings)

InitUrl ==
    /\ InitKeys({[DEFAULT_SETTINGS EXCEPT !.omdbapikey = k] : k \in Keys})
    /\ uPc = "call"
    /\ uText \in UrlTexts
    /\ uUrl = <<>>
    /\ FmtIdle
    /\ PipelineIdle

GetUrlCall ==
    /\ uPc = "call"
    /\ uUrl' = getUrl(uText)
    /\ uPc' = "done"
    /\ UNCHANGED <<keyVars, uText, fmtVars, runVars, editVars>>

NextUrl == GetUrlCall

SpecUrl == InitUrl /\ [][NextUrl]_vars

(***************************************************************************)
(* Claims about getUrl.                                                    *)
(***************************************************************************)
\* the text ends with a parenthesised year of four digits
EndsWithYear(text) == Len(text) >= 6 /\ YearAt(text, Len(text) - 5)

\* the text without its last n characters
DropLast(text, n) == SubSeq(text, 1, Len(text) - n)

\* C5: getUrl classifies every text by three rules, the first that matches:
\* a text that ends with tt and digits is looked up as i=<text>; otherwise a
\* text with a trailing (YYYY) as t=<text without the year>&y=<YYYY>; every
\* other text, one with a malformed or a non-trailing year included, as
\* t=<text>. The text without the year is read as the text without the
\* parenthetical, with or without the white space before it.
C5_Classification ==
    uPc = "done" =>
        IF IsImdbId(uText) THEN uUrl = omdbApiUrl \o <<"i","=">> \o uText
        ELSE IF EndsWithYear(uText)
        THEN \E title \in {DropLast(uText, 6), DropLast(uText, 7)} :
                 uUrl = omdbApiUrl \o <<"t","=">> \o title \o <<"&","y","=">>
                            \o SubSeq(uText, Len(uText) - 4, Len(uText) - 1)
        ELSE uUrl = omdbApiUrl \o <<"t","=">> \o uText

(***************************************************************************)
(* The formatter on its own: formatter applied to every template made of   *)
(* at most MaxTemplateParts pieces and to records whose keys come in       *)
(* either order.                                                           *)
(***************************************************************************)
TemplatePieces ==
    {<<"{","{","T","i","t","l","e","}","}">>, <<"{","{","Y","e","a","r","}","}">>, <<"{","{","P","o","s","t","e","r","}","}">>, <<"{","{","R","u","n","t","i","m","e","}","}">>, <<"{","{","T","r","a","i","l","e","r","}","}">>,
     <<"x">>, <<"{","{">>, <<"}","}">>}

FmtTemplates == Concats(TemplatePieces, MaxTemplateParts)

TitleValues == {<<"D","u","n","e">>, <<"Y","e","a","r">>}

YearValues == {<<"2","0","2","1">>, <<"{","{","T","i","t","l","e","}","}">>, <<"$","'">>}

\* the Runtime and Poster fields of a record: N/A and absent, or both set
RuntimeOnly == << <<<<"R","u","n","t","i","m","e">>, <<"N","/","A">>>> >>

RuntimeAndPoster == << <<<<"R","u","n","t","i","m","e">>, <<"1","5","5"," ","m","i","n">>>>, <<<<"P","o","s","t","e","r">>, <<"h","t","t","p",":","/","/","x","/","p",".","j","p","g">>>> >>

\* the records given to formatter: Title before Year as the API sends them, and
\* Year before Title
FmtRecords ==
    {<< <<<<"T","i","t","l","e">>, t>>, <<<<"Y","e","a","r">>, y>> >> \o e :
        t \in TitleValues, y \in YearValues, e \in {RuntimeOnly, RuntimeAndPoster}}
    \cup
    {<< <<<<"Y","e","a","r">>, y>>, <<<<"T","i","t","l","e">>, t>> >> \o RuntimeAndPoster :
        t \in TitleValues, y \in YearValues}

FmtSettings ==
    {DEFAULT_SETTINGS,
     [DEFAULT_SETTINGS EXCEPT !.youtubeapikey = <<"k","1">>],
     [DEFAULT_SETTINGS EXCEPT !.fileName = <<"{","{","T","i","t","l","e","}","}","{","{","T","i","t","l","e","}","}">>, !.imageSize = NaN]}

InitFmt ==
    /\ InitKeys(FmtSettings)
    /\ fPc = "call"
    /\ fData \in FmtRecords
    /\ fTemplate \in FmtTemplates
    /\ fWork = fTemplate
    /\ fTrailer = <<>>
    /\ UrlIdle
    /\ PipelineIdle

\* lines 51-56: the for-in loop
FormatterLoop ==
    /\ fPc = "call"
    /\ fWork' = GenericPass(fData, fWork)
    /\ fPc' = "special"
    /\ UNCHANGED <<keyVars, urlVars, runVars, editVars, fData, fTemplate, fTrailer>>

\* lines 57-76: runtime, poster, and the request of getTrailerOnYoutube
FormatterAskTrailer ==
    /\ fPc = "special"
    /\ settings.youtubeapikey # <<>>
    /\ fWork' = FormatPoster(fData, FormatRuntime(fData, fWork))
    /\ fPc' = "trailer"
    /\ UNCHANGED <<keyVars, urlVars, runVars, editVars, fData, fTemplate, fTrailer>>

\* lines 57-73 and 78-82: runtime, poster, and no trailer
FormatterNoTrailer ==
    /\ fPc = "special"
    /\ settings.youtubeapikey = <<>>
    /\ fWork' = FormatNoTrailer(FormatPoster(fData, FormatRuntime(fData, fWork)))
    /\ fPc' = "done"
    /\ UNCHANGED <<keyVars, urlVars, runVars, editVars, fData, fTemplate, fTrailer>>

\* lines 76-77 and 82: getTrailerOnYoutube returned an identifier
FormatterTrailer ==
    /\ fPc = "trailer"
    /\ \E id \in VideoIds :
        /\ fTrailer' = id
        /\ fWork' = FormatTrailer(fWork, id)
    /\ fPc' = "done"
    /\ UNCHANGED <<keyVars, urlVars, runVars, editVars, fData, fTemplate>>

\* line 76: getTrailerOnYoutube threw (the request failed, or items is empty)
FormatterFault ==
    /\ fPc = "trailer"
    /\ fPc' = "fault"
    /\ UNCHANGED <<keyVars, urlVars, runVars, editVars, fData, fTemplate, fWork, fTrailer>>

NextFmt ==
    \/ FormatterLoop
    \/ FormatterAskTrailer
    \/ FormatterNoTrailer
    \/ FormatterTrailer
    \/ FormatterFault

SpecFmt == InitFmt /\ [][NextFmt]_vars

(***************************************************************************)
(* Claims about formatter.                                                 *)
(***************************************************************************)
\* a text without a brace and without a dollar
Plain(s) == \A i \in 1..Len(s) : s[i] \notin {"{", "}", "$"}

\* the number of occurrences of pat in s
Count(s, pat) ==
    Cardinality({i \in 1..(Len(s) - Len(pat) + 1) : SubSeq(s, i, i + Len(pat) - 1) = pat})

\* s read from state st of: 0 in text, 1 after one {, 2 in a name, 3 after one }
RECURSIVE TokensFrom(_, _)
TokensFrom(s, st) ==
    IF s = <<>> THEN st = 0
    ELSE LET c == Head(s)
         IN  CASE st = 0 -> IF c = "{" THEN TokensFrom(Tail(s), 1)
                            ELSE c # "}" /\ TokensFrom(Tail(s), 0)
               [] st = 1 -> c = "{" /\ TokensFrom(Tail(s), 2)
               [] st = 2 -> IF c = "}" THEN TokensFrom(Tail(s), 3)
                            ELSE c # "{" /\ TokensFrom(Tail(s), 2)
               [] st = 3 -> c = "}" /\ TokensFrom(Tail(s), 0)

\* the braces of s are those of tokens {{name}}, none inside another
WellFormed(s) == TokensFrom(s, 0)

\* every order of the pairs of data
Orders(data) ==
    {[i \in 1..Len(data) |-> data[p[i]]] : p \in Permutations(1..Len(data))}

\* no field name and no text formatter has put in place of a token holds a
\* brace or a dollar: the values of the generic fields, the poster reference,
\* the trailer
PlainSubstitutes ==
    /\ \A i \in 1..Len(fData) : Plain(fData[i][1])
    /\ \A i \in 1..Len(fData) : fData[i][1] \notin SpecialKeys => Plain(fData[i][2])
    /\ Present(fData, <<"P","o","s","t","e","r">>) => Plain(PosterReference(fData))
    /\ Plain(fTrailer)

\* C6 as stated: for every template that holds {{Title}} and every record
\* whose Title is a plain string, the output of formatter holds the Title and
\* no {{Title}}.
C6_AsStated ==
    (/\ fPc = "done"
     /\ Contains(fTemplate, <<"{","{","T","i","t","l","e","}","}">>)
     /\ Plain(Get(fData, <<"T","i","t","l","e">>)))
    => (/\ Contains(fWork, Get(fData, <<"T","i","t","l","e">>))
        /\ ~Contains(fWork, <<"{","{","T","i","t","l","e","}","}">>))

\* C6: for every template made of brace-free text and tokens {{name}}, none
\* inside another, that holds {{Title}} exactly once, and every record and
\* settings such that no field name and no text put in place of a token (a
\* field's value, the poster reference, the trailer identifier) holds a brace
\* or a dollar, the output of formatter holds the Title and no {{Title}}.
C6_TitleSubstituted ==
    (/\ fPc = "done"
     /\ WellFormed(fTemplate)
     /\ Count(fTemplate, <<"{","{","T","i","t","l","e","}","}">>) = 1
     /\ PlainSubstitutes)
    => (/\ Contains(fWork, Get(fData, <<"T","i","t","l","e">>))
        /\ ~Contains(fWork, <<"{","{","T","i","t","l","e","}","}">>))

C6_Witness ==
    /\ fPc = "done"
    /\ WellFormed(fTemplate)
    /\ Count(fTemplate, <<"{","{","T","i","t","l","e","}","}">>) = 1
    /\ PlainSubstitutes
    /\ Get(fData, <<"T","i","t","l","e">>) = <<"D","u","n","e">>
    /\ Len(fTemplate) > Len(<<"{","{","T","i","t","l","e","}","}">>)
    /\ Contains(fWork, <<"D","u","n","e">>)

\* C7 as stated: the generic pass gives the same text whatever the order of
\* the fields, also when a field's value holds the token of another field.
C7_AsStated ==
    fPc = "special" =>
        \A other \in Orders(fData) : GenericPass(other, fTemplate) = fWork

\* C7: the generic pass gives the same text whatever the order of the
\* fields, for every template made of brace-free text and tokens {{name}},
\* none inside another, and every record whose field names and generic
\* fields' values hold no brace and no dollar.
C7_OrderIndependent ==
    (/\ fPc = "special"
     /\ WellFormed(fTemplate)
     /\ \A i \in 1..Len(fData) : Plain(fData[i][1])
     /\ \A i \in 1..Len(fData) : fData[i][1] \notin SpecialKeys => Plain(fData[i][2]))
    => \A other \in Orders(fData) : GenericPass(other, fTemplate) = fWork

C7_Witness ==
    /\ fPc = "special"
    /\ WellFormed(fTemplate)
    /\ \A i \in 1..Len(fData) : Plain(fData[i][1])
    /\ \A i \in 1..Len(fData) : fData[i][1] \notin SpecialKeys => Plain(fData[i][2])
    /\ Contains(fTemplate, <<"{","{","T","i","t","l","e","}","}">>)
    /\ Contains(fTemplate, <<"{","{","Y","e","a","r","}","}">>)
    /\ fWork # fTemplate
    /\ \E other \in Orders(fData) : other # fData

(***************************************************************************)
(* The pipeline: crawlAndAdd and the functions it calls, one action for    *)
(* each stretch of code between two awaits of a request or a storage call, *)
(* and the key edits of the settings tab.                                  *)
(***************************************************************************)
\* the texts the user selects or enters
Texts == {<<"t","t","1","3","7","5","6","6","6">>, <<"D","u","n","e"," ","(","2","0","2","1",")">>}

\* the records the movie database answers with when it finds the movie
FoundRecords ==
    {<< <<<<"T","i","t","l","e">>, <<"D","u","n","e">>>>, <<<<"Y","e","a","r">>, <<"2","0","2","1">>>>, <<<<"R","u","n","t","i","m","e">>, <<"1","5","5"," ","m","i","n">>>>,
        <<<<"P","o","s","t","e","r">>, <<"h","t","t","p",":","/","/","x","/","p",".","j","p","g">>>>, <<<<"R","e","s","p","o","n","s","e">>, <<"T","r","u","e">>>> >>,
     << <<<<"T","i","t","l","e">>, <<"O","c","e","a","n","'","s"," ","8",":"," ","R","e","d","u","x","?">>>>, <<<<"Y","e","a","r">>, <<"2","0","1","8">>>>, <<<<"R","u","n","t","i","m","e">>, <<"N","/","A">>>>,
        <<<<"P","o","s","t","e","r">>, <<"N","/","A">>>>, <<<<"R","e","s","p","o","n","s","e">>, <<"T","r","u","e">>>> >>}

\* the identifier the video search answers with
FoundVideoIds == {<<"n","9","x","h","J","r","P","X","o","p","4">>}

\* the record the movie database answers with when it finds none
NotFoundRecords ==
    {<< <<<<"R","e","s","p","o","n","s","e">>, <<"F","a","l","s","e">>>>, <<<<"E","r","r","o","r">>, <<"M","o","v","i","e"," ","n","o","t"," ","f","o","u","n","d","!">>>> >>}

\* the errors crawlMovie catches: requestUrl rejected, response.json threw,
\* movie.Title is undefined
RequestError == <<"E","r","r","o","r",":"," ","n","e","t",":",":","E","R","R","_","N","A","M","E","_","N","O","T","_","R","E","S","O","L","V","E","D">>

JsonError == <<"S","y","n","t","a","x","E","r","r","o","r",":"," ","U","n","e","x","p","e","c","t","e","d"," ","e","n","d"," ","o","f"," ","J","S","O","N"," ","i","n","p","u","t">>

TitleError == <<"T","y","p","e","E","r","r","o","r",":"," ","C","a","n","n","o","t"," ","r","e","a","d"," ","p","r","o","p","e","r","t","i","e","s"," ","o","f"," ","u","n","d","e","f","i","n","e","d"," ","(","r","e","a","d","i","n","g"," ","'","r","e","p","l","a","c","e","'",")">>

\* the notices
NoticeNoKey == <<"P","l","e","a","s","e"," ","e","n","t","e","r"," ","y","o","u","r"," ","O","M","D","B"," ","A","P","I"," ","k","e","y"," ","i","n"," ","t","h","e"," ","s","e","t","t","i","n","g","s",".">>

NoticeNoTrailerKey == <<"Y","o","u","t","u","b","e"," ","A","P","I"," ","k","e","y"," ","i","s"," ","m","i","s","s","i","n","g","."," ","T","r","a","i","l","e","r"," ","w","i","l","l"," ","n","o","t"," ","b","e"," ","a","d","d","e","d",".">>

NoticeNotFound == <<"M","o","v","i","e"," ","n","o","t"," ","f","o","u","n","d",".">>

NoticeAdded == <<"M","o","v","i","e"," ","a","d","d","e","d"," ","s","u","c","c","e","s","s","f","u","l","l","y","!">>

\* the settings loadData may have stored
LoadedSettings ==
    {[DEFAULT_SETTINGS EXCEPT !.omdbapikey = a, !.youtubeapikey = b, !.fileName = f] :
        a \in {<<>>, <<"k","1">>}, b \in {<<>>, <<"k","1">>},
        f \in {<<"{","{","T","i","t","l","e","}","}">>, <<"{","{","T","i","t","l","e","}","}"," ","(","{","{","Y","e","a","r","}","}",")">>}}

\* the invocation before it begins. Beside the locals of the code, a run
\* records what it did: the notices it showed, the requests it issued (each
\* with the key the settings held when it was issued), the values of
\* settings.youtubeapikey it read, and how its promise ended
IdleRun ==
    [pc |-> "idle",
     checkedKey |-> <<>>,
     movieUrl |-> <<>>,
     fetch |-> "none",
     error |-> <<>>,
     movie |-> <<>>,
     work |-> <<>>,
     movieStr |-> <<>>,
     mainPath |-> <<>>,
     notePath |-> <<>>,
     notices |-> <<>>,
     requests |-> <<>>,
     trailerKeys |-> {},
     poster |-> "idle",
     posterPath |-> <<>>,
     created |-> FALSE,
     opened |-> FALSE,
     rejection |-> "none"]

Init ==
    /\ InitKeys(LoadedSettings)
    /\ run = IdleRun
    /\ vault = {}
    /\ pendingSave = 0
    /\ UrlIdle
    /\ FmtIdle

\* movie.Title.replace(/[/\\?%*:|"<>]/g, '-')
Sanitize(title) ==
    [i \in 1..Len(title) |->
        IF title[i] \in {"/", "\\", "?", "%", "*", ":", "|", "\"", "<", ">"}
        THEN "-" ELSE title[i]]

\* a request as a run records it
Request(kind, url, key) == [kind |-> kind, url |-> url, key |-> key]

\* line 76: formatter calls getTrailerOnYoutube, which issues its request
AskTrailer(r, at) ==
    [r EXCEPT
        !.pc = at,
        !.trailerKeys = @ \cup {settings.youtubeapikey},
        !.requests = Append(@, Request("trailer",
                         TrailerUrl(GetString(r.movie, <<"T","i","t","l","e">>)),
                         settings.youtubeapikey))]

\* lines 142: addContentToFile has its file name and calls vault.create
AskCreate(r, fileName) ==
    [r EXCEPT
        !.pc = "create",
        !.notePath = r.mainPath \o <<"/">> \o fileName \o <<".","m","d">>]

\* lines 106-107 and 138-142: formatMovie returned text; addContentToFile up
\* to its first await
addContentToFile(r, text) ==
    LET called == [r EXCEPT
                      !.movieStr = text,
                      !.mainPath = settings.mainPath,
                      !.work = FormatterSync(r.movie, settings.fileName)]
    IN  IF settings.youtubeapikey # <<>>
        THEN AskTrailer(called, "fileName")
        ELSE AskCreate([called EXCEPT !.trailerKeys = @ \cup {settings.youtubeapikey}],
                       FormatNoTrailer(called.work))

\* a faulty formatMovie: the trailer is asked for without a look at the key
formatMovieAlwaysTrailer(r) ==
    AskTrailer([r EXCEPT !.work = FormatterSync(r.movie, settings.template)],
               "formatMovie")

\* lines 85-88: formatMovie up to its first await
formatMovie(r) ==
    LET called == [r EXCEPT !.work = FormatterSync(r.movie, settings.template)]
    IN  IF settings.youtubeapikey # <<>>
        THEN AskTrailer(called, "formatMovie")
        ELSE addContentToFile(
                 [called EXCEPT !.trailerKeys = @ \cup {settings.youtubeapikey}],
                 FormatNoTrailer(called.work))

\* lines 32-35: addImageToAssets up to its first await
addImageToAssets(r, url, fileName) ==
    [r EXCEPT
        !.poster = "download",
        !.posterPath = settings.assetPath \o <<"/">> \o fileName,
        !.requests = Append(@, Request("poster", url, <<>>))]

\* a faulty catch: the notice of the URL is left out
CrawlMovieCatchNoUrl(r, e) ==
    [r EXCEPT
        !.pc = "done",
        !.fetch = "failed",
        !.error = e,
        !.notices = @ \o <<NoticeNotFound, e>>]

\* lines 130-135 and 101-103: the catch of crawlMovie, and crawlAndAdd returns
CrawlMovieCatch(r, e) ==
    [r EXCEPT
        !.pc = "done",
        !.fetch = "failed",
        !.error = e,
        !.notices = @ \o <<NoticeNotFound, e, r.movieUrl>>]

\* an error no one catches: the promise of crawlAndAdd is rejected
Reject(r, why) == [r EXCEPT !.pc = "done", !.rejection = why]

\* lines 93-96: crawlAndAdd without a movie-database key
CrawlAndAddNoKey(text) ==
    /\ run.pc = "idle"
    /\ settings.omdbapikey = <<>>
    /\ run' = [run EXCEPT !.pc = "done", !.notices = Append(@, NoticeNoKey)]
    /\ UNCHANGED <<keyVars, urlVars, fmtVars, vault, editVars>>

\* a faulty crawlAndAdd: the movie-database key is not looked at
CrawlAndAddUnchecked(text) ==
    /\ run.pc = "idle"
    /\ run' = [run EXCEPT
                  !.pc = "crawlMovie",
                  !.checkedKey = settings.omdbapikey,
                  !.trailerKeys = {settings.youtubeapikey},
                  !.notices = IF settings.youtubeapikey = <<>>
                              THEN Append(@, NoticeNoTrailerKey) ELSE @,
                  !.movieUrl = getUrl(text),
                  !.fetch = "pending",
                  !.requests = Append(@, Request("metadata", getUrl(text),
                                                 settings.omdbapikey))]
    /\ UNCHANGED <<keyVars, urlVars, fmtVars, vault, editVars>>

\* lines 93-100 and 119-125: crawlAndAdd with a key, up to the request of
\* crawlMovie
CrawlAndAdd(text) ==
    /\ run.pc = "idle"
    /\ settings.omdbapikey # <<>>
    /\ run' = [run EXCEPT
                  !.pc = "crawlMovie",
                  !.checkedKey = settings.omdbapikey,
                  !.trailerKeys = {settings.youtubeapikey},
                  !.notices = IF settings.youtubeapikey = <<>>
                              THEN Append(@, NoticeNoTrailerKey) ELSE @,
                  !.movieUrl = getUrl(text),
                  !.fetch = "pending",
                  !.requests = Append(@, Request("metadata", getUrl(text),
                                                 settings.omdbapikey))]
    /\ UNCHANGED <<keyVars, urlVars, fmtVars, vault, editVars>>

\* lines 122-125: requestUrl rejects
CrawlMovieRequestFails ==
    /\ run.pc = "crawlMovie"
    /\ run' = CrawlMovieCatch(run, RequestError)
    /\ UNCHANGED <<keyVars, urlVars, fmtVars, vault, editVars>>

\* line 127: the body is not JSON
CrawlMovieBadJson ==
    /\ run.pc = "crawlMovie"
    /\ run' = CrawlMovieCatch(run, JsonError)
    /\ UNCHANGED <<keyVars, urlVars, fmtVars, vault, editVars>>

\* lines 127-129 and 100-107: the response of the movie database
CrawlMovieResponse(json) ==
    /\ run.pc = "crawlMovie"
    /\ run' = IF ~Has(json, <<"T","i","t","l","e">>) THEN CrawlMovieCatch(run, TitleError)
              ELSE LET movie == Put(json, <<"T","i","t","l","e">>, Sanitize(Get(json, <<"T","i","t","l","e">>)))
                       title == Get(movie, <<"T","i","t","l","e">>)
                       found == [run EXCEPT !.fetch = "ok", !.movie = movie]
                   IN  formatMovie(addImageToAssets(found,
                           GetString(movie, <<"P","o","s","t","e","r">>), title \o <<".","j","p","g">>))
    /\ UNCHANGED <<keyVars, urlVars, fmtVars, vault, editVars>>

\* lines 46-47, 77 and 82: the video search answers formatMovie's formatter
FormatMovieTrailer(id) ==
    /\ run.pc = "formatMovie"
    /\ run' = addContentToFile(run, FormatTrailer(run.work, id))
    /\ UNCHANGED <<keyVars, urlVars, fmtVars, vault, editVars>>

\* lines 42-46: the video search fails, or its items are empty
FormatMovieFault ==
    /\ run.pc = "formatMovie"
    /\ run' = Reject(run, "trailer")
    /\ UNCHANGED <<keyVars, urlVars, fmtVars, vault, editVars>>

\* lines 46-47, 77, 82 and 141-142: the video search answers the formatter
\* of addContentToFile
FileNameTrailer(id) ==
    /\ run.pc = "fileName"
    /\ run' = AskCreate(run, FormatTrailer(run.work, id))
    /\ UNCHANGED <<keyVars, urlVars, fmtVars, vault, editVars>>

\* lines 42-46 under addContentToFile
FileNameFault ==
    /\ run.pc = "fileName"
    /\ run' = Reject(run, "trailer")
    /\ UNCHANGED <<keyVars, urlVars, fmtVars, vault, editVars>>

\* a faulty pipeline: the note is created only when the poster is written
CreateDoneAfterPoster ==
    /\ run.pc = "create"
    /\ run.poster = "written"
    /\ run.notePath \notin vault
    /\ vault' = vault \cup {run.notePath}
    /\ run' = [run EXCEPT !.pc = "open", !.created = TRUE]
    /\ UNCHANGED <<keyVars, urlVars, fmtVars, editVars>>

\* lines 142-143: vault.create made the note; openLinkText is called
CreateDone ==
    /\ run.pc = "create"
    /\ run.notePath \notin vault
    /\ vault' = vault \cup {run.notePath}
    /\ run' = [run EXCEPT !.pc = "open", !.created = TRUE]
    /\ UNCHANGED <<keyVars, urlVars, fmtVars, editVars>>

\* line 142: vault.create rejects (the file exists, or the folder does not)
CreateFails ==
    /\ run.pc = "create"
    /\ run' = Reject(run, "create")
    /\ UNCHANGED <<keyVars, urlVars, fmtVars, vault, editVars>>

\* lines 143-144: the note is open
OpenDone ==
    /\ run.pc = "open"
    /\ run' = [run EXCEPT !.pc = "done", !.opened = TRUE,
                          !.notices = Append(@, NoticeAdded)]
    /\ UNCHANGED <<keyVars, urlVars, fmtVars, vault, editVars>>

\* line 143: openLinkText rejects
OpenFails ==
    /\ run.pc = "open"
    /\ run' = Reject(run, "open")
    /\ UNCHANGED <<keyVars, urlVars, fmtVars, vault, editVars>>

\* lines 35-37: the poster is downloaded; vault.createBinary is called.
\* Nothing can be downloaded from a Poster of "N/A", which is no URL: that
\* request can only fail.
PosterDownloaded ==
    /\ run.poster = "download"
    /\ Present(run.movie, <<"P","o","s","t","e","r">>)
    /\ run' = [run EXCEPT !.poster = "write"]
    /\ UNCHANGED <<keyVars, urlVars, fmtVars, vault, editVars>>

\* line 35: the download fails
PosterDownloadFails ==
    /\ run.poster = "download"
    /\ run' = [run EXCEPT !.poster = "failed"]
    /\ UNCHANGED <<keyVars, urlVars, fmtVars, vault, editVars>>

\* line 37: vault.createBinary made the file
PosterWritten ==
    /\ run.poster = "write"
    /\ run.posterPath \notin vault
    /\ vault' = vault \cup {run.posterPath}
    /\ run' = [run EXCEPT !.poster = "written"]
    /\ UNCHANGED <<keyVars, urlVars, fmtVars, editVars>>

\* line 37: vault.createBinary rejects
PosterWriteFails ==
    /\ run.poster = "write"
    /\ run' = [run EXCEPT !.poster = "failed"]
    /\ UNCHANGED <<keyVars, urlVars, fmtVars, vault, editVars>>

\* lines 263-265: onChange of the OMDB key, up to await saveSettings()
EditOmdbKey(value) ==
    /\ pendingSave < MaxPending
    /\ settings' = [settings EXCEPT !.omdbapikey = value]
    /\ pendingSave' = pendingSave + 1
    /\ UNCHANGED <<omdbApiUrl, youtubeApiUrl, urlVars, fmtVars, runVars>>

\* lines 275-277: onChange of the Youtube key, up to await saveSettings()
EditYoutubeKey(value) ==
    /\ pendingSave < MaxPending
    /\ settings' = [settings EXCEPT !.youtubeapikey = value]
    /\ pendingSave' = pendingSave + 1
    /\ UNCHANGED <<omdbApiUrl, youtubeApiUrl, urlVars, fmtVars, runVars>>

\* lines 266 and 278 with 147-150: saveSettings returned; updateKeys
UpdateKeys ==
    /\ pendingSave > 0
    /\ pendingSave' = pendingSave - 1
    /\ omdbApiUrl' = updateKeysOmdb(settings)
    /\ youtubeApiUrl' = updateKeysYoutube(settings)
    /\ UNCHANGED <<settings, urlVars, fmtVars, runVars>>

\* lines 265 and 277 with 191-193: saveData rejects, so the handler ends
\* before updateKeys
SaveSettingsFails ==
    /\ pendingSave > 0
    /\ pendingSave' = pendingSave - 1
    /\ UNCHANGED <<keyVars, urlVars, fmtVars, runVars>>

Next ==
    \/ \E text \in Texts : CrawlAndAddNoKey(text)
    \/ \E text \in Texts : CrawlAndAdd(text)
    \/ CrawlMovieRequestFails
    \/ CrawlMovieBadJson
    \/ \E json \in FoundRecords \cup NotFoundRecords : CrawlMovieResponse(json)
    \/ \E id \in FoundVideoIds : FormatMovieTrailer(id)
    \/ FormatMovieFault
    \/ \E id \in FoundVideoIds : FileNameTrailer(id)
    \/ FileNameFault
    \/ CreateDone
    \/ CreateFails
    \/ OpenDone
    \/ OpenFails
    \/ PosterDownloaded
    \/ PosterDownloadFails
    \/ PosterWritten
    \/ PosterWriteFails
    \/ \E value \in Keys : EditOmdbKey(value)
    \/ \E value \in Keys : EditYoutubeKey(value)
    \/ UpdateKeys
    \/ SaveSettingsFails

Spec == Init /\ [][Next]_vars

(***************************************************************************)
(* Claims about the pipeline.                                              *)
(***************************************************************************)
\* the notices of the run hold the text
Noticed(text) == \E i \in 1..Len(run.notices) : run.notices[i] = text

\* the requests of a kind the run has issued
RequestsOf(kind) == {i \in 1..Len(run.requests) : run.requests[i].kind = kind}

\* s begins with p
IsPrefix(p, s) == Len(p) <= Len(s) /\ SubSeq(s, 1, Len(p)) = p

\* the run has touched no file
NoFile == ~run.created /\ ~run.opened /\ vault = {}

\* C1: invoked while settings.omdbapikey is empty, crawlAndAdd shows a warning
\* and ends: it issues no request (metadata, poster or video search) and
\* creates and opens no file.
C1_NoKeyNoEffect ==
    (run.pc # "idle" /\ run.checkedKey = <<>>) =>
        /\ run.pc = "done"
        /\ run.notices = <<NoticeNoKey>>
        /\ run.requests = <<>>
        /\ run.poster = "idle"
        /\ NoFile

C1_Witness ==
    /\ run.pc = "done"
    /\ run.checkedKey = <<>>
    /\ run.notices = <<NoticeNoKey>>
    /\ omdbApiUrl = updateKeysOmdb([omdbapikey |-> <<"k","1">>])

\* C2: when the metadata fetch fails (the request fails, the body is not
\* JSON, or the response has no Title), the run shows notices that hold the
\* error text and the URL of the request and ends: no poster download, no
\* video search, no note created or opened, no success notice, and the one
\* metadata request only.
C2_LookupFailureAborts ==
    run.fetch = "failed" =>
        /\ run.pc = "done"
        /\ run.error # <<>>
        /\ Noticed(run.error)
        /\ Noticed(run.movieUrl)
        /\ Len(run.requests) = 1
        /\ run.requests[1].kind = "metadata"
        /\ run.requests[1].url = run.movieUrl
        /\ run.poster = "idle"
        /\ NoFile
        /\ ~Noticed(NoticeAdded)

C2_Witness ==
    /\ run.fetch = "failed"
    /\ run.error = TitleError
    /\ Noticed(TitleError)
    /\ Noticed(run.movieUrl)
    /\ run.pc = "done"

\* C3: every run that ends has written its note, or was given up for the
\* missing key or the failed metadata fetch with the reason shown in a notice.
C3_TerminalStates ==
    run.pc = "done" =>
        \/ run.created
        \/ Noticed(NoticeNoKey)
        \/ run.fetch = "failed" /\ Noticed(NoticeNotFound)

\* C4: with a movie-database key, settings.youtubeapikey empty whenever the
\* run reads it and the metadata fetched, the run shows the warning, issues
\* no video search (for the note text or for the file name), puts the empty
\* string in place of {{Trailer}}, and ends with the note created and opened
\* and the success notice shown unless a storage call fails.
C4_NoTrailerKey ==
    (run.checkedKey # <<>> /\ run.fetch = "ok" /\ run.trailerKeys = {<<>>}) =>
        /\ Noticed(NoticeNoTrailerKey)
        /\ RequestsOf("trailer") = {}
        /\ run.pc \in {"create", "open", "done"}
        /\ run.movieStr = FormatNoTrailer(FormatterSync(run.movie, settings.template))
        /\ ~Contains(run.movieStr, <<"{","{","T","r","a","i","l","e","r","}","}">>)
        /\ ~Contains(run.movieStr, <<"<","i","f","r","a","m","e">>)
        /\ run.rejection \in {"none", "create", "open"}
        /\ (run.pc = "done" /\ run.rejection = "none") =>
               /\ run.created
               /\ run.opened
               /\ run.notePath \in vault
               /\ run.notices[Len(run.notices)] = NoticeAdded

C4_Witness ==
    /\ run.checkedKey # <<>>
    /\ run.fetch = "ok"
    /\ run.trailerKeys = {<<>>}
    /\ run.pc = "done"
    /\ run.opened
    /\ Noticed(NoticeNoTrailerKey)
    /\ Noticed(NoticeAdded)
    /\ Contains(settings.template, <<"{","{","T","r","a","i","l","e","r","}","}">>)

\* C8: the poster download is begun when the metadata is fetched, before the
\* note is formatted, and nothing waits for it: whatever the download has
\* come to, the note can be created when vault.create is called on a free
\* path and opened when it is created, and the success notice follows.
C8_PosterNotAwaited ==
    /\ (run.poster # "idle") <=> (run.fetch = "ok")
    /\ (run.pc = "create" /\ run.notePath \notin vault) => ENABLED CreateDone
    /\ run.pc = "open" => ENABLED OpenDone

\* the note is created and opened and the success notice shown while the
\* poster file does not exist
C8_Witness ==
    /\ run.created
    /\ run.opened
    /\ Noticed(NoticeAdded)
    /\ run.poster = "download"
    /\ run.posterPath \notin vault

\* C9: the note holds an embedded-image reference exactly if the run began a
\* poster download, and the path of the reference is the path the run writes
\* the poster to.
C9_ReferenceIsPosterFile ==
    run.created =>
        /\ Contains(run.movieStr, <<"!","[","[">>) <=> (run.poster # "idle")
        /\ run.poster # "idle" =>
               Contains(run.movieStr, <<"!","[","[">> \o run.posterPath \o <<"|">>)

\* C10: whatever the interleaving of key edits and runs, a metadata request
\* carries the key of settings.omdbapikey that passed the run's check, and a
\* video search the key settings.youtubeapikey holds when it is issued.
C10_KeysNeverStale ==
    \A i \in 1..Len(run.requests) :
        LET q == run.requests[i]
        IN  /\ q.kind = "metadata" =>
                   /\ q.key = run.checkedKey
                   /\ IsPrefix(Replace(extractMovieUrl, <<"{","k","e","y","}">>, q.key), q.url)
            /\ q.kind = "trailer" =>
                   IsPrefix(Replace(youtubeApiUrlTemplate, <<"{","k","e","y","}">>, q.key), q.url)

====
